---- MODULE Spec2Model ----
(***************************************************************************)
(* A model of scripts/gliner_pii.py: the NDJSON read loop (main), model    *)
(* loading (load_model), the analysis engine (process_request) and the     *)
(* redaction engine (redact_request).                                      *)
(*                                                                         *)
(* Texts are sequences of one-character strings, so that Python's slicing  *)
(* and the "[REDACTED_<label>]" marker are modelled character by           *)
(* character.  Scores and thresholds are hundredths (0.9 is 90).           *)
(***************************************************************************)
EXTENDS Integers, Sequences, FiniteSets, TLC

(***************************************************************************)
(* JSON values as they arrive in a request.                                *)
(***************************************************************************)
Null == [t |-> "null"]
Num(n) == [t |-> "num", n |-> n]
Str(s) == [t |-> "str", s |-> s]
List(xs) == [t |-> "list", xs |-> xs]

\* dict.get(key, default) on a request object or a span: a key the dict does
\* not hold is a field the record does not have.
Get(d, key, default) == IF key \in DOMAIN d THEN d[key] ELSE default

Min(a, b) == IF a <= b THEN a ELSE b

(***************************************************************************)
(* Python string operations.                                               *)
(***************************************************************************)
DigitChars == <<"0", "1", "2", "3", "4", "5", "6", "7", "8", "9">>

RECURSIVE IntStr(_)
\* str(n) of a non-negative integer.
IntStr(n) ==
  IF n < 10 THEN <<DigitChars[n + 1]>>
  ELSE IntStr(n \div 10) \o <<DigitChars[(n % 10) + 1]>>

\* str(value) of a scalar cell value.
PyStr(value) ==
  CASE value.t = "str" -> value.s
    [] value.t = "num" -> IntStr(value.n)
    [] value.t = "null" -> <<"N", "o", "n", "e">>

Whitespace == {" ", "\t"}

\* bool(val_str.strip()): the text holds a character that is not whitespace.
StripTruthy(val_str) == \E k \in 1..Len(val_str) : val_str[k] \notin Whitespace

\* s[:k] and s[k:] for k >= 0 (an index past the end is clamped).
SliceTo(s, k) == SubSeq(s, 1, Min(k, Len(s)))
SliceFrom(s, k) == SubSeq(s, Min(k, Len(s)) + 1, Len(s))

\* f"[REDACTED_{label}]"
RedactedMarker(label) ==
  <<"[", "R", "E", "D", "A", "C", "T", "E", "D", "_">> \o label \o <<"]">>

(***************************************************************************)
(* The Label Catalog.                                                      *)
(***************************************************************************)
ALL_LABELS ==
  <<
    <<"f","i","r","s","t","_","n","a","m","e">>,
    <<"l","a","s","t","_","n","a","m","e">>,
    <<"n","a","m","e">>,
    <<"d","a","t","e","_","o","f","_","b","i","r","t","h">>,
    <<"a","g","e">>,
    <<"g","e","n","d","e","r">>,
    <<"s","e","x","u","a","l","i","t","y">>,
    <<"r","a","c","e","_","e","t","h","n","i","c","i","t","y">>,
    <<"r","e","l","i","g","i","o","u","s","_","b","e","l","i","e","f">>,
    <<"p","o","l","i","t","i","c","a","l","_","v","i","e","w">>,
    <<"o","c","c","u","p","a","t","i","o","n">>,
    <<"e","m","p","l","o","y","m","e","n","t","_","s","t","a","t","u","s">>,
    <<"e","d","u","c","a","t","i","o","n","_","l","e","v","e","l">>,
    <<"e","m","a","i","l">>,
    <<"p","h","o","n","e","_","n","u","m","b","e","r">>,
    <<"s","t","r","e","e","t","_","a","d","d","r","e","s","s">>,
    <<"c","i","t","y">>,
    <<"c","o","u","n","t","y">>,
    <<"s","t","a","t","e">>,
    <<"c","o","u","n","t","r","y">>,
    <<"c","o","o","r","d","i","n","a","t","e">>,
    <<"z","i","p","_","c","o","d","e">>,
    <<"p","o","_","b","o","x">>,
    <<"c","r","e","d","i","t","_","d","e","b","i","t","_","c","a","r","d">>,
    <<"c","v","v">>,
    <<"b","a","n","k","_","r","o","u","t","i","n","g","_","n","u","m","b","e","r">>,
    <<"a","c","c","o","u","n","t","_","n","u","m","b","e","r">>,
    <<"i","b","a","n">>,
    <<"s","w","i","f","t","_","b","i","c">>,
    <<"p","i","n">>,
    <<"s","s","n">>,
    <<"t","a","x","_","i","d">>,
    <<"e","i","n">>,
    <<"p","a","s","s","p","o","r","t","_","n","u","m","b","e","r">>,
    <<"d","r","i","v","e","r","_","l","i","c","e","n","s","e">>,
    <<"l","i","c","e","n","s","e","_","p","l","a","t","e">>,
    <<"n","a","t","i","o","n","a","l","_","i","d">>,
    <<"v","o","t","e","r","_","i","d">>,
    <<"i","p","v","4">>,
    <<"i","p","v","6">>,
    <<"m","a","c","_","a","d","d","r","e","s","s">>,
    <<"u","r","l">>,
    <<"u","s","e","r","_","n","a","m","e">>,
    <<"p","a","s","s","w","o","r","d">>,
    <<"d","e","v","i","c","e","_","i","d","e","n","t","i","f","i","e","r">>,
    <<"i","m","e","i">>,
    <<"s","e","r","i","a","l","_","n","u","m","b","e","r">>,
    <<"a","p","i","_","k","e","y">>,
    <<"s","e","c","r","e","t","_","k","e","y">>,
    <<"m","e","d","i","c","a","l","_","r","e","c","o","r","d","_","n","u","m","b","e","r">>,
    <<"h","e","a","l","t","h","_","p","l","a","n","_","b","e","n","e","f","i","c","i","a","r","y","_","n","u","m","b","e","r">>,
    <<"b","l","o","o","d","_","t","y","p","e">>,
    <<"b","i","o","m","e","t","r","i","c","_","i","d","e","n","t","i","f","i","e","r">>,
    <<"h","e","a","l","t","h","_","c","o","n","d","i","t","i","o","n">>,
    <<"m","e","d","i","c","a","t","i","o","n">>,
    <<"i","n","s","u","r","a","n","c","e","_","p","o","l","i","c","y","_","n","u","m","b","e","r">>,
    <<"d","a","t","e">>,
    <<"t","i","m","e">>,
    <<"d","a","t","e","_","t","i","m","e">>,
    <<"c","o","m","p","a","n","y","_","n","a","m","e">>,
    <<"e","m","p","l","o","y","e","e","_","i","d">>,
    <<"c","u","s","t","o","m","e","r","_","i","d">>,
    <<"c","e","r","t","i","f","i","c","a","t","e","_","l","i","c","e","n","s","e","_","n","u","m","b","e","r">>,
    <<"v","e","h","i","c","l","e","_","i","d","e","n","t","i","f","i","e","r">>
  >>

InAllLabels(label) == \E k \in 1..Len(ALL_LABELS) : ALL_LABELS[k] = label

(***************************************************************************)
(* Detection spans returned by the classifier.                             *)
(***************************************************************************)
\* entity.get("start", 0): the key the descending sort uses.
SortKey(entity) == Get(entity, "start", 0)

RECURSIVE InsertDescending(_, _)
\* Stable insertion by descending start: sorted(..., reverse=True) keeps the
\* original order of entities with equal keys.
InsertDescending(sorted, entity) ==
  IF sorted = <<>> THEN <<entity>>
  ELSE IF SortKey(Head(sorted)) >= SortKey(entity)
       THEN <<Head(sorted)>> \o InsertDescending(Tail(sorted), entity)
       ELSE <<entity>> \o sorted

RECURSIVE SortFrom(_, _)
SortFrom(sorted, rest) ==
  IF rest = <<>> THEN sorted
  ELSE SortFrom(InsertDescending(sorted, Head(rest)), Tail(rest))

\* Mutant: the span list is applied in the order the classifier gave it.
EntitiesUnsorted(entities) == entities

\* sorted(entities, key=lambda e: e.get("start", 0), reverse=True)
EntitiesSorted(entities) == SortFrom(<<>>, entities)

\* Mutant: the label is not looked up in the catalog.
AnalyzeHitAnyLabel(score, label, threshold) == score >= threshold

\* The guard of the analysis loop: score >= threshold and label in ALL_LABELS.
AnalyzeHit(score, label, threshold) == score >= threshold /\ InAllLabels(label)

\* Mutant: the score has to exceed the threshold.
RedactHitAbove(score, start, end, threshold) == score > threshold /\ start < end

\* The guard of the redaction loop: score >= threshold and start < end.
RedactHit(score, start, end, threshold) == score >= threshold /\ start < end

\* val_str[:start] + f"[REDACTED_{label}]" + val_str[end:]
ReplaceSpan(val_str, start, end, label) ==
  SliceTo(val_str, start) \o RedactedMarker(label) \o SliceFrom(val_str, end)

\* The label a span without a "label" key gets in redact_request.
UnknownLabel == <<"u", "n", "k", "n", "o", "w", "n">>

RECURSIVE ApplyEntities(_, _, _)
\* for entity in entities_sorted: ... (the replacement loop of one work item)
ApplyEntities(val_str, entities_sorted, threshold) ==
  IF entities_sorted = <<>> THEN val_str
  ELSE LET entity == Head(entities_sorted)
           start == Get(entity, "start", 0)
           end == Get(entity, "end", 0)
           label == Get(entity, "label", UnknownLabel)
           score == Get(entity, "score", 0)
           next_str == IF RedactHit(score, start, end, threshold)
                       THEN ReplaceSpan(val_str, start, end, label)
                       ELSE val_str
       IN ApplyEntities(next_str, Tail(entities_sorted), threshold)

\* The final val_str of a work item whose span list is not empty.
RedactText(val_str, entities, threshold) ==
  ApplyEntities(val_str, EntitiesSorted(entities), threshold)

\* An empty dict.
EmptyDict == [k \in {} |-> {}]

\* text[:50]
SAMPLE_LEN == 50

RECURSIVE AnalyzeEntitiesLastSample(_, _, _, _, _, _)
\* Mutant: every detection records its text as the sample of the column.
AnalyzeEntitiesLastSample(res, smp, column_name, text, ents, threshold) ==
  IF ents = <<>> THEN [results |-> res, samples |-> smp]
  ELSE LET entity == Head(ents)
           label == Get(entity, "label", <<>>)
           score == Get(entity, "score", 0)
           hit == AnalyzeHit(score, label, threshold)
           res1 == IF ~hit THEN res
                   ELSE IF column_name \in DOMAIN res
                        THEN [res EXCEPT ![column_name] = @ \cup {label}]
                        ELSE res @@ (column_name :> {label})
           smp1 == IF ~hit THEN smp
                   ELSE IF column_name \in DOMAIN smp
                        THEN [smp EXCEPT ![column_name] = SliceTo(text, SAMPLE_LEN)]
                        ELSE smp @@ (column_name :> SliceTo(text, SAMPLE_LEN))
       IN AnalyzeEntitiesLastSample(res1, smp1, column_name, text, Tail(ents),
                                    threshold)

RECURSIVE AnalyzeEntities(_, _, _, _, _, _)
\* for entity in entities: ... (the aggregation loop of one work item)
AnalyzeEntities(res, smp, column_name, text, ents, threshold) ==
  IF ents = <<>> THEN [results |-> res, samples |-> smp]
  ELSE LET entity == Head(ents)
           label == Get(entity, "label", <<>>)
           score == Get(entity, "score", 0)
           hit == AnalyzeHit(score, label, threshold)
           res1 == IF ~hit THEN res
                   ELSE IF column_name \in DOMAIN res
                        THEN [res EXCEPT ![column_name] = @ \cup {label}]
                        ELSE res @@ (column_name :> {label})
           smp1 == IF hit /\ column_name \notin DOMAIN smp
                   THEN smp @@ (column_name :> SliceTo(text, SAMPLE_LEN))
                   ELSE smp
       IN AnalyzeEntities(res1, smp1, column_name, text, Tail(ents), threshold)

(***************************************************************************)
(* Flattening a table into the work list.  Row and column indices are      *)
(* 0-based as in the source; sequences are 1-based.                        *)
(***************************************************************************)
\* A list is anything the code can take len() of and iterate; a number is not.
IsList(v) == v.t = "list"

\* bool(v) as "if not data or not columns" evaluates it.
Truthy(v) ==
  CASE v.t = "list" -> v.xs # <<>>
    [] v.t = "num" -> v.n # 0
    [] v.t = "str" -> v.s # <<>>
    [] v.t = "null" -> FALSE

RECURSIVE ColumnValuesNullAsText(_, _)
\* Mutant: a null cell is not set apart; str(None) is collected.
ColumnValuesNullAsText(rows, i) ==
  IF rows = <<>> THEN <<>>
  ELSE LET row == Head(rows).xs
           here == IF i < Len(row) /\ StripTruthy(PyStr(row[i + 1]))
                   THEN <<PyStr(row[i + 1])>> ELSE <<>>
       IN here \o ColumnValuesNullAsText(Tail(rows), i)

RECURSIVE ColumnValues(_, _)
\* column_values[i] of process_request: the non-blank texts of column i, in
\* row order.
ColumnValues(rows, i) ==
  IF rows = <<>> THEN <<>>
  ELSE LET row == Head(rows).xs
           val_str == IF row[i + 1] # Null THEN PyStr(row[i + 1]) ELSE <<>>
           here == IF i < Len(row) /\ StripTruthy(val_str)
                   THEN <<val_str>> ELSE <<>>
       IN here \o ColumnValues(Tail(rows), i)

RECURSIVE AnalyzeTasksFrom(_, _, _)
AnalyzeTasksFrom(columns, rows, i) ==
  IF i >= Len(columns) THEN <<>>
  ELSE LET vals == ColumnValues(rows, i)
       IN [k \in 1..Len(vals) |->
             [column_name |-> columns[i + 1], text |-> vals[k]]]
          \o AnalyzeTasksFrom(columns, rows, i + 1)

\* The work list of process_request: columns outer, rows inner.
AnalyzeTasks(columns, rows) == AnalyzeTasksFrom(columns, rows, 0)

RECURSIVE RowTasksBeyondColumns(_, _, _, _)
\* Mutant: the cells past the declared columns are not skipped.
RowTasksBeyondColumns(row, row_idx, col_idx, num_columns) ==
  IF col_idx >= Len(row) THEN <<>>
  ELSE LET value == row[col_idx + 1]
           here == IF value # Null /\ StripTruthy(PyStr(value))
                   THEN <<[row_idx |-> row_idx, col_idx |-> col_idx,
                           text |-> PyStr(value)]>>
                   ELSE <<>>
       IN here \o RowTasksBeyondColumns(row, row_idx, col_idx + 1, num_columns)

RECURSIVE RowTasks(_, _, _, _)
RowTasks(row, row_idx, col_idx, num_columns) ==
  IF col_idx >= Len(row) THEN <<>>
  ELSE LET value == row[col_idx + 1]
           skip == col_idx >= num_columns \/ value = Null
           here == IF ~skip /\ StripTruthy(PyStr(value))
                   THEN <<[row_idx |-> row_idx, col_idx |-> col_idx,
                           text |-> PyStr(value)]>>
                   ELSE <<>>
       IN here \o RowTasks(row, row_idx, col_idx + 1, num_columns)

RECURSIVE RedactTasksFrom(_, _, _)
RedactTasksFrom(rows, row_idx, num_columns) ==
  IF row_idx >= Len(rows) THEN <<>>
  ELSE RowTasks(rows[row_idx + 1].xs, row_idx, 0, num_columns)
       \o RedactTasksFrom(rows, row_idx + 1, num_columns)

\* The work list of redact_request: rows outer, columns inner.
RedactTasks(num_columns, rows) == RedactTasksFrom(rows, 0, num_columns)

\* The fields of a request, with the defaults of request.get.
ReqAction(req) == Get(req, "action", "")
ReqTable(req) == Get(req, "table", "unknown")
ReqColumns(req) == Get(req, "columns", List(<<>>))
ReqData(req) == Get(req, "data", List(<<>>))
ReqThreshold(req) == Get(req, "threshold", 90)

\* len(columns), iterating data and enumerate(row) / list(row) raise TypeError
\* unless columns, data and every row are lists.
WellTyped(req) ==
  /\ IsList(ReqColumns(req))
  /\ IsList(ReqData(req))
  /\ \A k \in 1..Len(ReqData(req).xs) : IsList(ReqData(req).xs[k])

\* process_request raises before its chunk loop.
AnalyzeRaises(req) == ~WellTyped(req)

\* Mutant: only data is tested, "if not data".
RedactShortCircuitDataOnly(req) == ~Truthy(ReqData(req))

\* redact_request returns {"data": data} before touching columns or rows.
RedactShortCircuit(req) == ~Truthy(ReqData(req)) \/ ~Truthy(ReqColumns(req))

\* redact_request raises before its chunk loop.
RedactRaises(req) == ~RedactShortCircuit(req) /\ ~WellTyped(req)

(***************************************************************************)
(* Bounds of the model and the inputs it draws.                            *)
(***************************************************************************)
\* The chunk size.  The source sets BATCH_SIZE = 256 (lines 111 and 186); the
\* model checks the chunking with a small chunk so that work lists of several
\* chunks stay within reach.
BATCH_SIZE == 2
\* Rows of a table.
MaxRows == 2
\* Lines on standard input, when more than one.
MaxLines == 3
\* Spans the classifier returns for one request, over all its work items.
MaxSpans == 2
\* The offsets of the spans the classifier returns: 0..MaxOffset.
MaxOffset == 2

\* A full row, a row with a null, a blank and a text, and a short row.
RowValues ==
  { List(<<Str(<<"a", "b">>), Num(7), Str(<<"c">>)>>),
    List(<<Null, Str(<<" ">>), Str(<<"c">>)>>),
    List(<<Num(7)>>) }

SeqsUpTo(S, n) == UNION {[1..k -> S] : k \in 0..n}

Tables(n) == {List(rows) : rows \in SeqsUpTo(RowValues, n)}

\* data: a table, or a number, or a table holding a number where a row
\* belongs (both raise TypeError when iterated).
DataValues(n) == Tables(n) \cup {Num(5), List(<<Num(5)>>)}

\* columns: no column, fewer columns than a full row has cells, as many (with
\* a name given twice), or a number (len() of it raises TypeError).
ColumnsValues ==
  {List(<<>>), List(<<"a">>), List(<<"a", "b">>), List(<<"a", "b", "a">>),
   Num(5)}

NoField == [k \in {} |-> 0]

OptionalFields(key, values) == {NoField} \cup {key :> v : v \in values}

\* Request objects with action analyze or redact over tables of up to n rows.
EngineRequests(n) ==
  { ("action" :> a) @@ h @@ c @@ d :
      a \in {"analyze", "redact"},
      h \in {NoField, ("table" :> "users") @@ ("threshold" :> 50)},
      c \in OptionalFields("columns", ColumnsValues),
      d \in OptionalFields("data", DataValues(n)) }

Object(fields) == [t |-> "object", fields |-> fields]
IsDict(v) == v.t = "object"

\* Lines that are no analyze or redact request: a blank line, a line that is
\* not JSON, JSON that is not an object, a shutdown, an unknown action, no
\* action.
PlainLines ==
  { [kind |-> "blank"], [kind |-> "invalid_json"],
    [kind |-> "json", value |-> Num(5)],
    [kind |-> "json", value |-> Object([action |-> "shutdown"])],
    [kind |-> "json", value |-> Object([action |-> "ping"])],
    [kind |-> "json", value |-> Object(NoField)] }

RequestLines(n) == {[kind |-> "json", value |-> Object(r)] : r \in EngineRequests(n)}

\* Requests small enough to be served several in a row.
SmallRequestLines ==
  { [kind |-> "json", value |-> Object(r)] :
      r \in { [action |-> "analyze", columns |-> List(<<"a">>),
               data |-> List(<<List(<<Num(7)>>)>>)],
              [action |-> "redact", columns |-> List(<<"a">>),
               data |-> List(<<List(<<Num(7)>>)>>)],
              [action |-> "analyze", table |-> "users", columns |-> Num(5)],
              [action |-> "redact", columns |-> List(<<"a">>),
               data |-> Num(5)] } }

\* Standard input of the protocol runs: up to MaxLines plain lines and small
\* requests.
ProtocolInputs == SeqsUpTo(PlainLines \cup SmallRequestLines, MaxLines)

\* A text longer than a sample.
LongText == [k \in 1..(SAMPLE_LEN + 1) |-> IF k <= SAMPLE_LEN THEN "a" ELSE "b"]
\* An analyze request over a column that holds it.
LongTextLines ==
  { [kind |-> "json",
     value |-> Object([action |-> "analyze", columns |-> List(<<"a">>),
                       data |-> List(<<List(<<Str(LongText)>>),
                                       List(<<Num(7)>>)>>)])] }

\* Standard input of the batch runs: one line, a plain one or a request over
\* a table of up to MaxRows rows.
BatchInputs ==
  {<<l>> : l \in PlainLines \cup RequestLines(MaxRows) \cup LongTextLines}

\* Standard input of the cell runs: one line, a plain one or a request over
\* a table of one row.
OneRowRequests ==
  { ("action" :> a) @@ h @@ c @@ ("data" :> List(<<row>>)) :
      a \in {"analyze", "redact"},
      h \in {NoField, ("table" :> "users") @@ ("threshold" :> 50)},
      c \in {"columns" :> v : v \in ColumnsValues \ {Num(5)}},
      row \in RowValues }
CellInputs ==
  {<<l>> : l \in PlainLines
                 \cup {[kind |-> "json", value |-> Object(r)] :
                         r \in OneRowRequests}}

\* Requests that are served again and again: two analyze requests over
\* different columns and a redact request.
RepeatRequestLines ==
  { [kind |-> "json", value |-> Object(r)] :
      r \in { [action |-> "analyze", table |-> "users",
               columns |-> List(<<"a">>), data |-> List(<<List(<<Num(7)>>)>>)],
              [action |-> "analyze", table |-> "users",
               columns |-> List(<<"b">>),
               data |-> List(<<List(<<Str(<<"c">>)>>)>>)],
              [action |-> "redact", columns |-> List(<<"a">>),
               data |-> List(<<List(<<Num(7)>>)>>)] } }
\* The texts of their cells.
RepeatTexts == {<<"7">>, <<"c">>}

\* Standard input of the repeat runs: one plain line, or up to MaxLines of
\* these requests and lines that are not JSON.
RepeatInputs ==
  {<<l>> : l \in PlainLines}
    \cup SeqsUpTo(RepeatRequestLines \cup {[kind |-> "invalid_json"]}, MaxLines)

\* The classifier that load_model will load: whether it offers
\* batch_predict_entities, and whether it is strict, that is returns only
\* spans of the labels and the threshold it was called with, or over-returns.
Classifiers(batch, strictness) == [has_batch : batch, strict : strictness]

\* What the classifier may return for one text.
\* A label of the catalog and one that is not in it.
SpanLabels == {<<"p", "i", "n">>, <<"x">>}
\* With the thresholds 50 and 90 (the default), a score is below, at or above
\* the threshold.
Scores == {50, 90}
\* Offsets are within the text and end >= start, as a Detection Span has them.
Spans(text) ==
  { span \in [label : SpanLabels, score : Scores,
              start : 0..Min(Len(text), MaxOffset),
              end : 0..Min(Len(text), MaxOffset)] :
      span.start <= span.end }
\* The spans a strict classifier returns when called with ALL_LABELS and
\* threshold.
StrictSpans(text, threshold) ==
  { span \in Spans(text) :
      /\ InAllLabels(span.label)
      /\ span.score >= threshold
      /\ span.start < span.end }
SpanLists(text, threshold, strict, n) ==
  SeqsUpTo(IF strict THEN StrictSpans(text, threshold) ELSE Spans(text), n)

\* What a deterministic classifier does with a text: it raises, or it
\* returns no span, or one span of a catalog label over the first character.
Answers ==
  { [raises |-> TRUE, spans |-> <<>>],
    [raises |-> FALSE, spans |-> <<>>],
    [raises |-> FALSE,
     spans |-> <<[label |-> <<"p", "i", "n">>, score |-> 90,
                  start |-> 0, end |-> 1]>>] }
\* Deterministic classifiers: the same text gets the same answer whenever
\* it is classified.
DeterministicClassifiers ==
  [has_batch : {TRUE}, strict : {TRUE}, predict : [RepeatTexts -> Answers]]

(***************************************************************************)
(* The state of the process.                                               *)
(***************************************************************************)
VARIABLES
  pc,             \* where main is: "start", "load", "loaded", "read",
                  \* "chunk" (head of the chunk loop), "item" (head of the
                  \* loop over a chunk's predictions), "exited"
  stdin,          \* the lines of standard input
  nread,          \* the number of them the read loop has taken
  out,            \* the messages written to standard output, in order
  stderr,         \* the diagnostics written to standard error, in order
  exit_code,      \* -1 while running
  gliner,         \* the classifier that load_model loads
  model,          \* "none" until load_model returns, then "loaded"
  request,        \* the request being served
  tasks,          \* its work list
  i,              \* the offset of the current chunk in tasks
  batch_tasks,    \* the current chunk
  j,              \* the index in batch_tasks of the item last taken, -1
                  \* when no item of the chunk was taken
  entities,       \* the span list of that item
  results,        \* process_request: column -> set of labels
  samples,        \* process_request: column -> sample
  redacted_data,  \* redact_request: the copied rows
  calls,          \* the classifier calls made for the request being served
  predicted       \* the number of spans returned for it

locals ==
  <<request, tasks, i, batch_tasks, j, entities, results, samples,
    redacted_data, calls, predicted>>
vars == <<pc, stdin, nread, out, stderr, exit_code, gliner, model, locals>>

NoRequest == [action |-> "none"]

\* Between requests nothing of a request is kept.
LocalsCleared ==
  /\ request = NoRequest
  /\ tasks = <<>>
  /\ i = 0
  /\ batch_tasks = <<>>
  /\ j = -1
  /\ entities = <<>>
  /\ results = EmptyDict
  /\ samples = EmptyDict
  /\ redacted_data = <<>>
  /\ calls = <<>>
  /\ predicted = 0

\* The process starts on some standard input with some classifier installed.
InitWith(inputs, classifiers) ==
  /\ pc = "start"
  /\ stdin \in inputs
  /\ nread = 0
  /\ gliner \in classifiers
  /\ out = <<>>
  /\ stderr = <<>>
  /\ exit_code = -1
  /\ model = "none"
  /\ LocalsCleared

\* Protocol runs: several lines, a strict classifier.
Init == InitWith(ProtocolInputs, Classifiers({TRUE}, {TRUE}))
\* Batch runs: one request over a table of several chunks, a strict classifier
\* with or without batch_predict_entities.
InitBatch == InitWith(BatchInputs, Classifiers(BOOLEAN, {TRUE}))
\* Cell runs: one request over one row, a classifier that may over-return.
InitCell == InitWith(CellInputs, Classifiers({TRUE}, {FALSE}))
\* Repeat runs: several requests, a deterministic classifier.
InitRepeat == InitWith(RepeatInputs, DeterministicClassifiers)

(***************************************************************************)
(* main: startup.                                                          *)
(***************************************************************************)
\* print(json.dumps({"status": "loading"}), flush=True)
EmitLoading ==
  /\ pc = "start"
  /\ out' = Append(out, [status |-> "loading"])
  /\ pc' = "load"
  /\ UNCHANGED <<stdin, nread, stderr, exit_code, gliner, model, locals>>

\* load_model returns the model.
LoadModelOk ==
  /\ pc = "load"
  /\ model' = "loaded"
  /\ pc' = "loaded"
  /\ UNCHANGED <<stdin, nread, out, stderr, exit_code, gliner, locals>>

\* Mutant: load_model prints the error and returns without a model.
LoadModelFailsReturns ==
  /\ pc = "load"
  /\ out' = Append(out, [error |-> "Failed to load model: "])
  /\ pc' = "loaded"
  /\ UNCHANGED <<stdin, nread, stderr, exit_code, gliner, model, locals>>

\* load_model catches ImportError or any other exception, prints one error
\* and calls sys.exit(1).
LoadModelFails ==
  /\ pc = "load"
  /\ \E message \in {"GLiNER library not installed. Run: pip install gliner torch",
                     "Failed to load model: "} :
       out' = Append(out, [error |-> message])
  /\ exit_code' = 1
  /\ pc' = "exited"
  /\ UNCHANGED <<stdin, nread, stderr, gliner, model, locals>>

\* print(json.dumps({"status": "ready"}), flush=True)
EmitReady ==
  /\ pc = "loaded"
  /\ out' = Append(out, [status |-> "ready"])
  /\ pc' = "read"
  /\ UNCHANGED <<stdin, nread, stderr, exit_code, gliner, model, locals>>

(***************************************************************************)
(* main: the read loop.                                                    *)
(***************************************************************************)
\* The loop takes the next line of standard input.
Reading == pc = "read" /\ nread < Len(stdin)
\* The line it takes.
Line == stdin[nread + 1]
\* for line in sys.stdin: the line is consumed.
TakeLine == nread' = nread + 1 /\ stdin' = stdin
IsJson(line) == line.kind = "json"
IsRequest(line) == IsJson(line) /\ IsDict(line.value)
\* action = request.get("action", "")
ActionOf(line) == ReqAction(line.value.fields)

\* line.strip() is empty: continue.
ReadBlank ==
  /\ Reading /\ Line.kind = "blank"
  /\ TakeLine
  /\ UNCHANGED <<pc, out, stderr, exit_code, gliner, model, locals>>

\* json.loads raises JSONDecodeError: one error, continue.
ReadInvalidJson ==
  /\ Reading /\ Line.kind = "invalid_json"
  /\ TakeLine
  /\ out' = Append(out, [error |-> "Invalid JSON: "])
  /\ UNCHANGED <<pc, stderr, exit_code, gliner, model, locals>>

\* json.loads returns a value that is no dict: request.get raises
\* AttributeError, which nothing catches; the interpreter prints the
\* traceback to standard error and exits with status 1.
ReadNotAnObject ==
  /\ Reading /\ IsJson(Line) /\ ~IsDict(Line.value)
  /\ TakeLine
  /\ stderr' = Append(stderr, "Traceback: AttributeError")
  /\ exit_code' = 1
  /\ pc' = "exited"
  /\ UNCHANGED <<out, gliner, model, locals>>

\* Mutant: the status is printed and the loop goes on.
ReadShutdownContinues ==
  /\ Reading /\ IsRequest(Line) /\ ActionOf(Line) = "shutdown"
  /\ TakeLine
  /\ out' = Append(out, [status |-> "shutdown"])
  /\ UNCHANGED <<pc, stderr, exit_code, gliner, model, locals>>

\* action == "shutdown": print the status and break.
ReadShutdown ==
  /\ Reading /\ IsRequest(Line) /\ ActionOf(Line) = "shutdown"
  /\ TakeLine
  /\ out' = Append(out, [status |-> "shutdown"])
  /\ exit_code' = 0
  /\ pc' = "exited"
  /\ UNCHANGED <<stderr, gliner, model, locals>>

\* Any other action: one error, continue.
ReadUnknownAction ==
  /\ Reading /\ IsRequest(Line)
  /\ ActionOf(Line) \notin {"shutdown", "analyze", "redact"}
  /\ TakeLine
  /\ out' = Append(out, [error |-> "Unknown action: " \o ActionOf(Line)])
  /\ UNCHANGED <<pc, stderr, exit_code, gliner, model, locals>>

\* The loop ends with standard input; main returns.
EndOfInput ==
  /\ pc = "read" /\ nread = Len(stdin)
  /\ exit_code' = 0
  /\ pc' = "exited"
  /\ UNCHANGED <<stdin, nread, out, stderr, gliner, model, locals>>

\* Mutant: results and samples are kept across requests, so a request starts
\* from what the last analyze response held.
StartChunksAccumulating(req, work, rows) ==
  LET answered == {k \in 1..Len(out) : "results" \in DOMAIN out[k]}
      last == CHOOSE k \in answered : \A n \in answered : n <= k
  IN /\ request' = req
     /\ tasks' = work
     /\ i' = 0
     /\ batch_tasks' = <<>>
     /\ j' = -1
     /\ entities' = <<>>
     /\ results' = IF answered = {} THEN EmptyDict
                   ELSE [c \in DOMAIN out[last].results |->
                           {out[last].results[c][n] :
                              n \in 1..Len(out[last].results[c])}]
     /\ samples' = IF answered = {} THEN EmptyDict ELSE out[last].samples
     /\ redacted_data' = rows
     /\ calls' = <<>>
     /\ predicted' = 0
     /\ pc' = "chunk"
     /\ out' = out

\* The locals of a request that reaches its chunk loop.
StartChunks(req, work, rows) ==
  /\ request' = req
  /\ tasks' = work
  /\ i' = 0
  /\ batch_tasks' = <<>>
  /\ j' = -1
  /\ entities' = <<>>
  /\ results' = EmptyDict
  /\ samples' = EmptyDict
  /\ redacted_data' = rows
  /\ calls' = <<>>
  /\ predicted' = 0
  /\ pc' = "chunk"
  /\ out' = out

\* A request answered without reaching the chunk loop.
Answer(message) ==
  /\ out' = Append(out, message)
  /\ UNCHANGED <<pc, locals>>

\* Mutant: main calls process_request outside a try; its exception ends the
\* process.
ReadAnalyzeUncaught ==
  /\ Reading /\ IsRequest(Line) /\ ActionOf(Line) = "analyze"
  /\ TakeLine
  /\ LET req == Line.value.fields
         work == AnalyzeTasks(ReqColumns(req).xs, ReqData(req).xs)
     IN IF AnalyzeRaises(req)
        THEN /\ stderr' = Append(stderr, "Traceback: TypeError")
             /\ exit_code' = 1
             /\ pc' = "exited"
             /\ UNCHANGED <<out, locals>>
        ELSE /\ IF work = <<>>
                THEN Answer([table |-> ReqTable(req), results |-> EmptyDict,
                             samples |-> EmptyDict])
                ELSE StartChunks(req, work, <<>>)
             /\ UNCHANGED <<stderr, exit_code>>
  /\ UNCHANGED <<gliner, model>>

\* action == "analyze": process_request up to its chunk loop.  An exception
\* is answered by main with the error and the table; an empty work list is
\* answered at once.
ReadAnalyze ==
  /\ Reading /\ IsRequest(Line) /\ ActionOf(Line) = "analyze"
  /\ TakeLine
  /\ LET req == Line.value.fields
         work == AnalyzeTasks(ReqColumns(req).xs, ReqData(req).xs)
     IN IF AnalyzeRaises(req)
        THEN Answer([error |-> "Analysis failed: ", table |-> ReqTable(req)])
        ELSE IF work = <<>>
        THEN Answer([table |-> ReqTable(req), results |-> EmptyDict,
                     samples |-> EmptyDict])
        ELSE StartChunks(req, work, <<>>)
  /\ UNCHANGED <<stderr, exit_code, gliner, model>>

\* Mutant: the copies are cut to the length of the first row.
CopyRowsTrimmed(data) ==
  [k \in 1..Len(data.xs) |->
     SubSeq(data.xs[k].xs, 1, Min(Len(data.xs[k].xs), Len(data.xs[1].xs)))]

\* redacted_data = [list(row) for row in data]
CopyRows(data) == [k \in 1..Len(data.xs) |-> data.xs[k].xs]
\* The copied rows as the JSON value of the response.
RowsValue(rows) == List([k \in 1..Len(rows) |-> List(rows[k])])

\* action == "redact": redact_request up to its chunk loop.
ReadRedact ==
  /\ Reading /\ IsRequest(Line) /\ ActionOf(Line) = "redact"
  /\ TakeLine
  /\ LET req == Line.value.fields
         work == RedactTasks(Len(ReqColumns(req).xs), ReqData(req).xs)
     IN IF RedactShortCircuit(req)
        THEN Answer([data |-> ReqData(req)])
        ELSE IF RedactRaises(req)
        THEN Answer([error |-> "Redaction failed: "])
        ELSE IF work = <<>>
        THEN Answer([data |-> RowsValue(CopyRows(ReqData(req)))])
        ELSE StartChunks(req, work, CopyRows(ReqData(req)))
  /\ UNCHANGED <<stderr, exit_code, gliner, model>>

(***************************************************************************)
(* The chunk loop of process_request and redact_request.                   *)
(***************************************************************************)
Analyzing == request.action = "analyze"
Redacting == request.action = "redact"

\* The chunk loop has a chunk left: for i in range(0, len(tasks), BATCH_SIZE)
AtChunk == pc = "chunk" /\ i < Len(tasks)

\* Mutant: the slice is one item too long.
NextBatchOneMore == SubSeq(tasks, i + 1, Min(i + BATCH_SIZE + 1, Len(tasks)))

\* batch_tasks = tasks[i:i + BATCH_SIZE]
NextBatch == SubSeq(tasks, i + 1, Min(i + BATCH_SIZE, Len(tasks)))

\* batch_texts = [t[1] for t in batch_tasks]
BatchTexts(batch) == [k \in 1..Len(batch) |-> batch[k].text]

\* The classifier calls of one chunk.  With batch_predict_entities the chunk
\* is one call; without it each text is one predict_entities call, in order,
\* and the list comprehension stops at the first call that raises.
\* fail_at = 0: no call raises.  Each call is logged with its texts and the
\* offset of its chunk.
ChunkCalls(batch, fail_at) ==
  IF gliner.has_batch
  THEN <<[at |-> i, texts |-> BatchTexts(batch), raised |-> fail_at # 0]>>
  ELSE [k \in 1..(IF fail_at = 0 THEN Len(batch) ELSE fail_at) |->
          [at |-> i, texts |-> <<batch[k].text>>, raised |-> k = fail_at]]

\* The places a chunk's classification may raise at.
FailPoints(batch) == IF gliner.has_batch THEN {1} ELSE 1..Len(batch)

\* Mutant: the exception of the classifier leaves the chunk loop and the
\* request is answered with an error.
ClassifyRaisesAborts ==
  /\ AtChunk
  /\ out' = Append(out, IF Analyzing
                        THEN [error |-> "Analysis failed: ",
                              table |-> ReqTable(request)]
                        ELSE [error |-> "Redaction failed: "])
  /\ pc' = "read"
  /\ request' = NoRequest
  /\ tasks' = <<>>
  /\ i' = 0
  /\ batch_tasks' = <<>>
  /\ j' = -1
  /\ entities' = <<>>
  /\ results' = [k \in {} |-> {}]
  /\ samples' = [k \in {} |-> <<>>]
  /\ redacted_data' = <<>>
  /\ calls' = <<>>
  /\ predicted' = 0
  /\ UNCHANGED <<stdin, nread, stderr, exit_code, gliner, model>>

\* The classifier is one of the deterministic ones.
Deterministic == "predict" \in DOMAIN gliner

\* The classification of the chunk may raise at fail_at: any call of a
\* classifier that is not deterministic may; a deterministic one raises at
\* the texts it raises for (the batch call if it holds one, the first such
\* predict_entities call otherwise).
RaisesAt(batch, fail_at) ==
  \/ ~Deterministic
  \/ /\ Deterministic /\ gliner.has_batch
     /\ \E k \in 1..Len(batch) : gliner.predict[batch[k].text].raises
  \/ /\ Deterministic /\ ~gliner.has_batch
     /\ gliner.predict[batch[fail_at].text].raises
     /\ \A k \in 1..(fail_at - 1) : ~gliner.predict[batch[k].text].raises

\* The classification of the chunk may return.
Returns(batch) ==
  Deterministic => \A k \in 1..Len(batch) : ~gliner.predict[batch[k].text].raises

\* The span lists the classifier may return for the text of a work item.
Predictions(text) ==
  IF Deterministic THEN {gliner.predict[text].spans}
  ELSE SpanLists(text, ReqThreshold(request), gliner.strict,
                 MaxSpans - predicted)

\* except Exception: write the diagnostic to standard error and continue
\* with the next chunk.
ClassifyRaises ==
  /\ AtChunk
  /\ batch_tasks' = NextBatch
  /\ \E fail_at \in FailPoints(NextBatch) :
       /\ RaisesAt(NextBatch, fail_at)
       /\ calls' = calls \o ChunkCalls(NextBatch, fail_at)
  /\ stderr' = Append(stderr, IF Analyzing THEN "Batch error: "
                                           ELSE "Batch redaction error: ")
  /\ j' = -1
  /\ i' = i + BATCH_SIZE
  /\ UNCHANGED <<pc, stdin, nread, out, exit_code, gliner, model, request, tasks, entities,
                 results, samples, redacted_data, predicted>>

\* The classifier returns batch_predictions; the loop over them starts.
ClassifyReturns ==
  /\ AtChunk /\ Returns(NextBatch)
  /\ batch_tasks' = NextBatch
  /\ calls' = calls \o ChunkCalls(NextBatch, 0)
  /\ j' = -1
  /\ pc' = "item"
  /\ UNCHANGED <<stdin, nread, out, stderr, exit_code, gliner, model, request, tasks, i,
                 entities, results, samples, redacted_data, predicted>>

\* After the item at index k of the chunk: the next item, or the next chunk.
Advance(k) ==
  /\ j' = k
  /\ IF k + 1 < Len(batch_tasks)
     THEN pc' = "item" /\ i' = i
     ELSE pc' = "chunk" /\ i' = i + BATCH_SIZE

\* process_request, one turn of "for j, entities in enumerate(...)": the
\* span list of the next item is aggregated into results and samples.
AnalyzeItem ==
  /\ pc = "item" /\ Analyzing
  /\ LET task == batch_tasks[j + 2]
     IN \E predicted_entities \in Predictions(task.text) :
          LET after == AnalyzeEntities(results, samples, task.column_name,
                                       task.text, predicted_entities,
                                       ReqThreshold(request))
          IN /\ entities' = predicted_entities
             /\ predicted' = predicted + Len(predicted_entities)
             /\ results' = after.results
             /\ samples' = after.samples
  /\ Advance(j + 1)
  /\ UNCHANGED <<stdin, nread, out, stderr, exit_code, gliner, model, request, tasks,
                 batch_tasks, redacted_data, calls>>

\* Mutant: no copy of the rows is made; the final val_str is written into
\* the rows of the request as well.
RedactItemInPlace ==
  /\ pc = "item" /\ Redacting
  /\ LET task == batch_tasks[j + 2]
     IN \E predicted_entities \in Predictions(task.text) :
          LET rows == IF predicted_entities = <<>> THEN redacted_data
                      ELSE [redacted_data EXCEPT
                              ![task.row_idx + 1][task.col_idx + 1] =
                                Str(RedactText(task.text, predicted_entities,
                                               ReqThreshold(request)))]
          IN /\ entities' = predicted_entities
             /\ predicted' = predicted + Len(predicted_entities)
             /\ redacted_data' = rows
             /\ request' = [request EXCEPT !.data = RowsValue(rows)]
  /\ Advance(j + 1)
  /\ UNCHANGED <<stdin, nread, out, stderr, exit_code, gliner, model, tasks,
                 batch_tasks, results, samples, calls>>

\* redact_request, one turn of "for j, entities in enumerate(...)": an item
\* with no span is skipped; otherwise the final val_str is written back.
RedactItem ==
  /\ pc = "item" /\ Redacting
  /\ LET task == batch_tasks[j + 2]
     IN \E predicted_entities \in Predictions(task.text) :
          /\ entities' = predicted_entities
          /\ predicted' = predicted + Len(predicted_entities)
          /\ redacted_data' =
               IF predicted_entities = <<>> THEN redacted_data
               ELSE [redacted_data EXCEPT
                       ![task.row_idx + 1][task.col_idx + 1] =
                         Str(RedactText(task.text, predicted_entities,
                                        ReqThreshold(request)))]
  /\ Advance(j + 1)
  /\ UNCHANGED <<stdin, nread, out, stderr, exit_code, gliner, model, request, tasks,
                 batch_tasks, results, samples, calls>>

(***************************************************************************)
(* The response of a request that went through the chunk loop.             *)
(***************************************************************************)
\* Code points order the characters of the catalog's labels.
CharOrder ==
  <<"0", "1", "2", "3", "4", "5", "6", "7", "8", "9", "_",
    "a", "b", "c", "d", "e", "f", "g", "h", "i", "j", "k", "l", "m",
    "n", "o", "p", "q", "r", "s", "t", "u", "v", "w", "x", "y", "z">>
Ord(c) == CHOOSE k \in 1..Len(CharOrder) : CharOrder[k] = c

RECURSIVE StrLess(_, _)
\* a < b on Python strings.
StrLess(a, b) ==
  IF b = <<>> THEN FALSE
  ELSE IF a = <<>> THEN TRUE
  ELSE IF Head(a) = Head(b) THEN StrLess(Tail(a), Tail(b))
  ELSE Ord(Head(a)) < Ord(Head(b))

RECURSIVE SortedList(_)
\* sorted(list(v))
SortedList(v) ==
  IF v = {} THEN <<>>
  ELSE LET least == CHOOSE x \in v : \A y \in v \ {x} : StrLess(x, y)
       IN <<least>> \o SortedList(v \ {least})

\* final_results = {k: sorted(list(v)) for k, v in results.items()}
FinalResults(res) == [k \in DOMAIN res |-> SortedList(res[k])]

\* The locals of a request are gone once it is answered.
ClearLocals ==
  /\ request' = NoRequest
  /\ tasks' = <<>>
  /\ i' = 0
  /\ batch_tasks' = <<>>
  /\ j' = -1
  /\ entities' = <<>>
  /\ results' = EmptyDict
  /\ samples' = EmptyDict
  /\ redacted_data' = <<>>
  /\ calls' = <<>>
  /\ predicted' = 0

\* The chunk loop is over.
ChunksDone == pc = "chunk" /\ i >= Len(tasks)

\* process_request returns and main prints the response.
AnalyzeRespond ==
  /\ ChunksDone /\ Analyzing
  /\ out' = Append(out, [table |-> ReqTable(request),
                         results |-> FinalResults(results),
                         samples |-> samples])
  /\ pc' = "read"
  /\ ClearLocals
  /\ UNCHANGED <<stdin, nread, stderr, exit_code, gliner, model>>

\* redact_request returns and main prints the response.
RedactRespond ==
  /\ ChunksDone /\ Redacting
  /\ out' = Append(out, [data |-> RowsValue(redacted_data)])
  /\ pc' = "read"
  /\ ClearLocals
  /\ UNCHANGED <<stdin, nread, stderr, exit_code, gliner, model>>

Next ==
  \/ EmitLoading
  \/ LoadModelOk
  \/ LoadModelFails
  \/ EmitReady
  \/ ReadBlank
  \/ ReadInvalidJson
  \/ ReadNotAnObject
  \/ ReadShutdown
  \/ ReadUnknownAction
  \/ ReadAnalyze
  \/ ReadRedact
  \/ EndOfInput
  \/ ClassifyRaises
  \/ ClassifyReturns
  \/ AnalyzeItem
  \/ RedactItem
  \/ AnalyzeRespond
  \/ RedactRespond

Spec == Init /\ [][Next]_vars
SpecBatch == InitBatch /\ [][Next]_vars
SpecCell == InitCell /\ [][Next]_vars
SpecRepeat == InitRepeat /\ [][Next]_vars

(***************************************************************************)
(* Vocabulary of the properties.                                           *)
(***************************************************************************)
\* A request is in its chunk loop.
InChunkLoop == pc \in {"item", "chunk"}

\* The loop over a chunk's predictions has just taken an item: batch_tasks[j]
\* with the span list entities.
ItemTaken == InChunkLoop /\ j >= 0
TakenTask == batch_tasks[j + 1]

\* The cell of a redaction work item in the request and in the copied rows.
InputCell(task) == ReqData(request).xs[task.row_idx + 1].xs[task.col_idx + 1]
OutputCell(task) == redacted_data[task.row_idx + 1][task.col_idx + 1]

\* text holds sub as a contiguous run of characters.
Contains(text, sub) ==
  \E k \in 0..(Len(text) - Len(sub)) : SubSeq(text, k + 1, k + Len(sub)) = sub

\* The labels the classifier may return that are not in the catalog.
ForeignLabels == {label \in SpanLabels : ~InAllLabels(label)}

\* The string cells of the data of a redact response.
HasMarker(data, label) ==
  /\ IsList(data)
  /\ \E r \in 1..Len(data.xs) :
       /\ IsList(data.xs[r])
       /\ \E c \in 1..Len(data.xs[r].xs) :
            /\ data.xs[r].xs[c].t = "str"
            /\ Contains(data.xs[r].xs[c].s, RedactedMarker(label))

IsAnalyzeResponse(message) == "results" \in DOMAIN message
IsRedactResponse(message) == "data" \in DOMAIN message
IsError(message) == "error" \in DOMAIN message

(***************************************************************************)
(* C1.  Label filtering: a span whose label is not in the Label Catalog    *)
(* never contributes a label to the results of analyze, nor a sample to    *)
(* its samples, and never produces a [REDACTED_<label>] marker in a cell   *)
(* of the output of redact.                                                *)
(*                                                                         *)
(* redact_request does not test the label (line 215), so the statement is  *)
(* violated: C1_LabelFiltering states the claim.                           *)
(***************************************************************************)
C1_LabelFiltering ==
  \A m \in 1..Len(out) :
    /\ IsAnalyzeResponse(out[m]) =>
         /\ \A c \in DOMAIN out[m].results :
              \A k \in 1..Len(out[m].results[c]) :
                InAllLabels(out[m].results[c][k])
         /\ DOMAIN out[m].samples \subseteq DOMAIN out[m].results
    /\ IsRedactResponse(out[m]) =>
         \A label \in ForeignLabels : ~HasMarker(out[m].data, label)

(***************************************************************************)
(* C3.  Redact leaves untouched cells uncoerced: a cell for which no span  *)
(* triggered a replacement (no span, or only spans with score < threshold  *)
(* or start >= end) and a cell that was never a work item is exactly the   *)
(* input value, with its type.                                             *)
(*                                                                         *)
(* redact_request writes val_str back for every item whose span list is    *)
(* not empty (line 218), so a number with an ineffective span comes out as *)
(* its text: C3_UntouchedCellsUncoerced states the claim.                  *)
(***************************************************************************)
\* The span passes the guard of the replacement loop.
Replaces(entity, threshold) ==
  entity.score >= threshold /\ entity.start < entity.end

\* The positions of the cells of the table.
CellPositions ==
  { position \in (0..(Len(redacted_data) - 1)) \X (0..3) :
      position[2] < Len(redacted_data[position[1] + 1]) }
TaskPositions == {<<tasks[k].row_idx, tasks[k].col_idx>> : k \in 1..Len(tasks)}

C3_UntouchedCellsUncoerced ==
  (InChunkLoop /\ Redacting) =>
    /\ \A position \in CellPositions \ TaskPositions :
         redacted_data[position[1] + 1][position[2] + 1]
           = ReqData(request).xs[position[1] + 1].xs[position[2] + 1]
    /\ (/\ j >= 0
        /\ \A k \in 1..Len(entities) :
             ~Replaces(entities[k], ReqThreshold(request)))
         => OutputCell(TakenTask) = InputCell(TakenTask)

(***************************************************************************)
(* C4.  Multi-span redaction offset correctness: for a cell text and       *)
(* pairwise non-overlapping in-range spans with score >= threshold and     *)
(* start < end, the redacted cell is the text with every span's range      *)
(* replaced by its marker at once and every other character in place,      *)
(* whatever the order the classifier lists the spans in.                   *)
(***************************************************************************)
Disjoint(a, b) == a.end <= b.start \/ b.end <= a.start

RECURSIVE SimultaneousFrom(_, _, _)
\* The text from offset p on, with the range of each span of the set replaced
\* by its marker.
SimultaneousFrom(text, spans, p) ==
  IF p >= Len(text) THEN <<>>
  ELSE IF \E span \in spans : span.start = p
  THEN LET span == CHOOSE span \in spans : span.start = p
       IN RedactedMarker(span.label) \o SimultaneousFrom(text, spans, span.end)
  ELSE <<text[p + 1]>> \o SimultaneousFrom(text, spans, p + 1)

Reverse(seq) == [k \in 1..Len(seq) |-> seq[Len(seq) + 1 - k]]

\* The item just taken has only replacing spans, no two of them overlapping.
C4_Case ==
  /\ ItemTaken /\ Redacting /\ entities # <<>>
  /\ \A k \in 1..Len(entities) : Replaces(entities[k], ReqThreshold(request))
  /\ \A k, l \in 1..Len(entities) :
       k < l => Disjoint(entities[k], entities[l])

C4_MultiSpanOffsets ==
  C4_Case =>
    /\ OutputCell(TakenTask) =
         Str(SimultaneousFrom(TakenTask.text,
                              {entities[k] : k \in 1..Len(entities)}, 0))
    /\ RedactText(TakenTask.text, Reverse(entities), ReqThreshold(request))
         = OutputCell(TakenTask).s

\* Two disjoint replacing spans, listed lowest offset first.
C4_Witness ==
  /\ C4_Case
  /\ Len(entities) = 2
  /\ entities[1].start < entities[2].start
  /\ entities[1].label # entities[2].label

(***************************************************************************)
(* C5.  Threshold boundary: in analyze and in redact a returned span takes *)
(* effect (adds its label to results, replaces its range with a marker)    *)
(* when its score is at or above the threshold of the request, and has no  *)
(* such effect when its score is below it.                                 *)
(*                                                                         *)
(* Stated of every turn of the loops over a chunk's predictions: the       *)
(* labels of the item's column grow by exactly the catalog labels of the   *)
(* spans with score >= threshold, and the text written back is the text    *)
(* redacted with exactly those spans.                                      *)
(***************************************************************************)
RECURSIVE AtOrAbove(_, _)
\* The spans of the list with score >= threshold, in order.
AtOrAbove(spans, threshold) ==
  IF spans = <<>> THEN <<>>
  ELSE (IF Head(spans).score >= threshold THEN <<Head(spans)>> ELSE <<>>)
       \o AtOrAbove(Tail(spans), threshold)

LabelsAt(res, column_name) ==
  IF column_name \in DOMAIN res THEN res[column_name] ELSE {}

C5_Turn ==
  pc = "item" =>
    LET task == batch_tasks[j' + 1]
        passing == AtOrAbove(entities', ReqThreshold(request))
    IN /\ Analyzing =>
            LabelsAt(results', task.column_name)
              = LabelsAt(results, task.column_name)
                \cup {label \in {passing[k].label : k \in 1..Len(passing)} :
                        InAllLabels(label)}
       /\ (Redacting /\ entities' # <<>>) =>
            redacted_data'[task.row_idx + 1][task.col_idx + 1].s
              = RedactText(task.text, passing, 0)

FailedOffsets == {calls[k].at : k \in {n \in 1..Len(calls) : calls[n].raised}}
AttemptedOffsets == {calls[k].at : k \in 1..Len(calls)}
\* The offset of the chunk of tasks[k].
ChunkOf(k) == (k - 1) - ((k - 1) % BATCH_SIZE)
\* The number of work items the loop is past.
Finished == IF pc = "item" THEN i + j + 1 ELSE Min(i, Len(tasks))
\* The work items of chunks that did not fail, among those the loop is past.
Served == {k \in 1..Finished : ChunkOf(k) \notin FailedOffsets}

C2_Isolated ==
  InChunkLoop =>
    /\ \A k \in 1..Finished : ChunkOf(k) \in AttemptedOffsets
    /\ Redacting =>
         \A k \in (1..Len(tasks)) \ Served :
           OutputCell(tasks[k]) = InputCell(tasks[k])
    /\ Analyzing =>
         /\ \A c \in DOMAIN results :
              \E k \in Served : tasks[k].column_name = c
         /\ \A c \in DOMAIN samples :
              \E k \in Served : /\ tasks[k].column_name = c
                                /\ samples[c] = SliceTo(tasks[k].text, SAMPLE_LEN)

C2_Step ==
  /\ C2_Isolated'
  /\ (InChunkLoop /\ stderr' # stderr) =>
       /\ pc' = "chunk" /\ i' = i + BATCH_SIZE
       /\ UNCHANGED <<out, request, tasks, results, samples, redacted_data>>
  /\ pc = "item" =>
       LET task == batch_tasks[j' + 1]
           threshold == ReqThreshold(request)
       IN /\ Analyzing =>
               \A k \in 1..Len(entities') :
                 AnalyzeHit(entities'[k].score, entities'[k].label, threshold)
                   => /\ entities'[k].label
                           \in LabelsAt(results', task.column_name)
                      /\ task.column_name \in DOMAIN samples'
          /\ (Redacting /\ entities' # <<>>) =>
               redacted_data'[task.row_idx + 1][task.col_idx + 1]
                 = Str(RedactText(task.text, entities', threshold))
  /\ (InChunkLoop /\ InChunkLoop') =>
       /\ \A c \in DOMAIN results :
            c \in DOMAIN results' /\ results[c] \subseteq results'[c]
       /\ \A c \in DOMAIN samples :
            c \in DOMAIN samples' /\ samples'[c] = samples[c]
       /\ Redacting =>
            \A k \in 1..Finished :
              redacted_data'[tasks[k].row_idx + 1][tasks[k].col_idx + 1]
                = OutputCell(tasks[k])
  /\ (InChunkLoop /\ ~InChunkLoop') =>
       /\ ChunksDone
       /\ out' = Append(out, IF Analyzing
                             THEN [table |-> ReqTable(request),
                                   results |-> FinalResults(results),
                                   samples |-> samples]
                             ELSE [data |-> RowsValue(redacted_data)])

C2_ChunkFailureIsolation == [][C2_Step]_vars

\* Three chunks of which the second failed: the loop is over and the first
\* and the last work item have their redaction.
C2_Witness ==
  /\ ChunksDone /\ Redacting
  /\ Len(tasks) > 2 * BATCH_SIZE
  /\ FailedOffsets = {BATCH_SIZE}
  /\ OutputCell(tasks[1]) # InputCell(tasks[1])
  /\ OutputCell(tasks[Len(tasks)]) # InputCell(tasks[Len(tasks)])

(***************************************************************************)
(* C6.  Transport-level errors are recoverable: for every input line that  *)
(* is a malformed request (not parseable as a JSON request object) or      *)
(* whose action is none of analyze, redact, shutdown, the process emits    *)
(* exactly one response with an error field for that line and the read     *)
(* loop continues, so that later requests are still served.                *)
(*                                                                         *)
(* A line of valid JSON that is no object ends the process without a       *)
(* response (line 249), so the statement is violated:                      *)
(* C6_TransportErrorsRecoverable states the claim.                         *)
(***************************************************************************)
Malformed(line) ==
  line.kind = "invalid_json" \/ (IsJson(line) /\ ~IsDict(line.value))
UnknownAction(line) ==
  IsRequest(line) /\ ActionOf(line) \notin {"analyze", "redact", "shutdown"}

C6_Recovers ==
  (Reading /\ (Malformed(Line) \/ UnknownAction(Line))) =>
    /\ Len(out') = Len(out) + 1
    /\ SubSeq(out', 1, Len(out)) = out
    /\ IsError(out'[Len(out')])
    /\ nread' = nread + 1
    /\ pc' = "read"

C6_TransportErrorsRecoverable == [][C6_Recovers]_vars

(***************************************************************************)
(* C7.  Request-level errors: when computing analyze or redact for a       *)
(* well-formed request raises an exception outside the per-chunk           *)
(* classifier call, the process emits exactly one error response for the   *)
(* request (with table for analyze), no success or partial result for it,  *)
(* and goes on serving the lines that follow.                              *)
(***************************************************************************)
\* The request of the line makes process_request or redact_request raise.
RaisesOn(line) ==
  /\ IsRequest(line)
  /\ \/ ActionOf(line) = "analyze" /\ AnalyzeRaises(line.value.fields)
     \/ ActionOf(line) = "redact" /\ RedactRaises(line.value.fields)

C7_Reported ==
  (Reading /\ RaisesOn(Line)) =>
    LET response == out'[Len(out')]
    IN /\ Len(out') = Len(out) + 1
       /\ SubSeq(out', 1, Len(out)) = out
       /\ IsError(response)
       /\ ~IsAnalyzeResponse(response) /\ ~IsRedactResponse(response)
       /\ IF ActionOf(Line) = "analyze"
          THEN DOMAIN response = {"error", "table"}
               /\ response.table = ReqTable(Line.value.fields)
          ELSE DOMAIN response = {"error"}
       /\ nread' = nread + 1
       /\ pc' = "read"
       /\ exit_code' = exit_code
       /\ LocalsCleared'

C7_RequestLevelErrors == [][C7_Reported]_vars

\* An analyze request and a redact request have raised, each was answered
\* with its error, and the request after them was served.
C7_Witness ==
  /\ pc = "read" /\ Len(out) = 5
  /\ IsError(out[3]) /\ "table" \in DOMAIN out[3] /\ out[3].table = "users"
  /\ out[4] = [error |-> "Redaction failed: "]
  /\ IsRedactResponse(out[5])

(***************************************************************************)
(* C8.  One response per request: after ready, every non-blank line read   *)
(* before shutdown yields exactly one response line, written before the    *)
(* next line is read; no request yields zero or two responses.             *)
(*                                                                         *)
(* The line C6 fails on yields no response, so the statement is violated:  *)
(* C8_OneResponsePerLine states the claim.                                 *)
(***************************************************************************)
\* The number of non-blank lines among the first n lines of standard input.
NonBlank(n) == Cardinality({k \in 1..n : stdin[k].kind # "blank"})
\* The number of responses written after ready.
Responses == Len(out) - 2

C8_OneResponsePerLine ==
  /\ (model = "loaded" /\ pc \in {"read", "exited"}) =>
       Responses = NonBlank(nread)
  /\ InChunkLoop => Responses = NonBlank(nread - 1)

(***************************************************************************)
(* C9.  Startup ordering and fatal load failure: the first message is the  *)
(* status loading; the status ready is emitted only after the model has    *)
(* loaded and before any request line is read; if loading fails, exactly   *)
(* one error message is emitted, ready never is, no request is served and  *)
(* the process terminates with a non-zero exit.                            *)
(***************************************************************************)
Loading == [status |-> "loading"]
Ready == [status |-> "ready"]

C9_Ordered ==
  /\ out # <<>> => out[1] = Loading
  /\ \A k \in 1..Len(out) :
       /\ out[k] = Loading => k = 1
       /\ out[k] = Ready => k = 2 /\ model = "loaded"
  /\ (nread > 0 \/ InChunkLoop) => Len(out) >= 2 /\ out[2] = Ready
  /\ (model # "loaded" /\ pc \notin {"start", "load"}) =>
       /\ pc = "exited" /\ exit_code = 1
       /\ Len(out) = 2 /\ IsError(out[2])
       /\ nread = 0 /\ LocalsCleared

\* Every step leads to an ordered state, and there is no step after the exit.
C9_StartupAndLoadFailure == [][C9_Ordered' /\ pc # "exited"]_vars

\* Loading has failed with requests waiting on standard input.
C9_Witness ==
  /\ pc = "exited" /\ exit_code = 1 /\ model # "loaded"
  /\ Len(out) = 2 /\ out[1] = Loading /\ IsError(out[2])
  /\ \E k \in 1..Len(stdin) : IsRequest(stdin[k])

(***************************************************************************)
(* C10.  Shutdown: on a request with action shutdown the process emits the *)
(* status shutdown as its last message and ends the read loop; no line     *)
(* after the shutdown line is processed or answered; and a shutdown is     *)
(* acted on between requests only, never while an analyze or redact        *)
(* request is in its chunk loop.                                           *)
(***************************************************************************)
Shutdown == [status |-> "shutdown"]

C10_Last ==
  \A k \in 1..Len(out) :
    out[k] = Shutdown =>
      /\ k = Len(out)
      /\ pc = "exited" /\ exit_code = 0
      /\ ActionOf(stdin[nread]) = "shutdown"

C10_Step ==
  /\ C10_Last'
  /\ (Reading /\ IsRequest(Line) /\ ActionOf(Line) = "shutdown") =>
       out' = Append(out, Shutdown) /\ pc' = "exited"
  /\ (Len(out') > Len(out) /\ out'[Len(out')] = Shutdown) =>
       pc = "read" /\ LocalsCleared /\ LocalsCleared'
  /\ InChunkLoop => nread' = nread /\ pc' # "exited"
  /\ pc # "exited"

C10_Shutdown == [][C10_Step]_vars

\* A request was served, then the shutdown: lines are left unread.
C10_Witness ==
  /\ pc = "exited" /\ out[Len(out)] = Shutdown
  /\ Len(out) >= 4 /\ IsRedactResponse(out[3])
  /\ nread < Len(stdin)

(***************************************************************************)
(* The cells of a table that are work: stated of the table, not of the     *)
(* loops that collect them.                                                *)
(***************************************************************************)
\* The value at row r, column c (0-based) of the table of a request.
CellAt(req, position) ==
  ReqData(req).xs[position[1] + 1].xs[position[2] + 1]

\* The positions below len(columns) that hold a value that is not null and
\* whose text is not blank.
Eligible(req) ==
  { position \in (0..(Len(ReqData(req).xs) - 1))
                   \X (0..(Len(ReqColumns(req).xs) - 1)) :
      /\ position[2] < Len(ReqData(req).xs[position[1] + 1].xs)
      /\ CellAt(req, position) # Null
      /\ \E k \in 1..Len(PyStr(CellAt(req, position))) :
           PyStr(CellAt(req, position))[k] \notin Whitespace }

\* Column-major: by column, then by row.  Row-major: by row, then by column.
ColumnMajor(a, b) == a[2] < b[2] \/ (a[2] = b[2] /\ a[1] <= b[1])
RowMajor(a, b) == a[1] < b[1] \/ (a[1] = b[1] /\ a[2] <= b[2])

\* The positions of the set in column-major or in row-major order: the k-th
\* is the one with k positions at or before it.
InOrder(positions, column_major) ==
  [k \in 1..Cardinality(positions) |->
     CHOOSE a \in positions :
       Cardinality({b \in positions :
                      IF column_major THEN ColumnMajor(b, a)
                      ELSE RowMajor(b, a)}) = k]

\* The work list of analyze and of redact as the table gives them.
AnalyzeWork(req) ==
  LET order == InOrder(Eligible(req), TRUE)
  IN [k \in 1..Len(order) |->
        [column_name |-> ReqColumns(req).xs[order[k][2] + 1],
         text |-> PyStr(CellAt(req, order[k]))]]
RedactWork(req) ==
  LET order == InOrder(Eligible(req), FALSE)
  IN [k \in 1..Len(order) |->
        [row_idx |-> order[k][1], col_idx |-> order[k][2],
         text |-> PyStr(CellAt(req, order[k]))]]

(***************************************************************************)
(* C11.  Sample selection: for each column, the sample analyze records is  *)
(* the first 50 characters of the first text of that column, in declared   *)
(* row order, that triggered a detection; once recorded it is never        *)
(* replaced by the text of a later row or of a later chunk.                *)
(*                                                                         *)
(* Stated of every step of an analyze request: the work list holds the     *)
(* texts of a column in row order; a column has a sample exactly when it   *)
(* has had a detection; the item that brings the column's first detection  *)
(* records the first 50 characters of its text; a recorded sample stays    *)
(* as it is up to the response, which carries it.                          *)
(***************************************************************************)
\* The span is a detection of analyze.
Detection(entity, threshold) ==
  entity.score >= threshold /\ InAllLabels(entity.label)

\* The first SAMPLE_LEN characters of the text.
FirstChars(text) ==
  [k \in 1..(IF Len(text) < SAMPLE_LEN THEN Len(text) ELSE SAMPLE_LEN) |->
     text[k]]

C11_Step ==
  /\ (~InChunkLoop /\ InChunkLoop' /\ Analyzing') =>
       tasks' = AnalyzeWork(request')
  /\ (InChunkLoop /\ Analyzing /\ InChunkLoop') =>
       /\ tasks' = tasks /\ request' = request
       /\ \A c \in DOMAIN samples :
            c \in DOMAIN samples' /\ samples'[c] = samples[c]
  /\ (InChunkLoop' /\ Analyzing') => DOMAIN samples' = DOMAIN results'
  /\ (pc = "item" /\ Analyzing) =>
       LET task == tasks[i + j' + 1]
           detected == \E k \in 1..Len(entities') :
                         Detection(entities'[k], ReqThreshold(request))
       IN /\ (detected /\ task.column_name \notin DOMAIN samples) =>
               /\ task.column_name \in DOMAIN samples'
               /\ samples'[task.column_name] = FirstChars(task.text)
          /\ DOMAIN samples' \subseteq DOMAIN samples \cup {task.column_name}
          /\ ~detected => DOMAIN samples' = DOMAIN samples
  /\ (InChunkLoop /\ Analyzing /\ ~InChunkLoop') =>
       out'[Len(out')].samples = samples

C11_SampleSelection == [][C11_Step]_vars

\* The first row of the column is longer than a sample and was detected; the
\* second row was detected too, and the sample is that of the first.
C11_Witness ==
  /\ ItemTaken /\ Analyzing /\ Len(tasks) = 2
  /\ TakenTask = tasks[2] /\ entities # <<>>
  /\ tasks[1].column_name = tasks[2].column_name
  /\ Len(tasks[1].text) > SAMPLE_LEN
  /\ Len(samples[tasks[1].column_name]) = SAMPLE_LEN
  /\ samples[tasks[1].column_name] # tasks[2].text

(***************************************************************************)
(* C12.  Analysis result invariant: in every analyze response, and after   *)
(* every processed chunk, a column name is a key of results if and only if *)
(* at least one detection (score >= threshold, label in the catalog)       *)
(* occurred for a text of that column in a chunk that did not fail; the    *)
(* keys of samples are keys of results; a column whose cells are all       *)
(* empty, whitespace or null never appears.                                *)
(*                                                                         *)
(* Stated of every step of an analyze request: results starts without a    *)
(* key, an item adds the key of its column exactly when one of its spans   *)
(* is a detection, no other step adds or removes a key, and the response   *)
(* carries the keys results has.                                           *)
(***************************************************************************)
\* The names of the columns that have a cell that is work.
WorkColumns(req) ==
  {ReqColumns(req).xs[position[2] + 1] : position \in Eligible(req)}

C12_Step ==
  /\ (~InChunkLoop /\ InChunkLoop' /\ Analyzing') => DOMAIN results' = {}
  /\ (pc = "item" /\ Analyzing) =>
       LET task == tasks[i + j' + 1]
           detected == \E k \in 1..Len(entities') :
                         Detection(entities'[k], ReqThreshold(request))
       IN DOMAIN results'
            = DOMAIN results \cup (IF detected THEN {task.column_name} ELSE {})
  /\ (pc = "chunk" /\ Analyzing /\ InChunkLoop') =>
       DOMAIN results' = DOMAIN results
  /\ (InChunkLoop' /\ Analyzing') =>
       /\ DOMAIN samples' \subseteq DOMAIN results'
       /\ \A c \in DOMAIN results' : results'[c] # {}
  /\ (Len(out') > Len(out) /\ IsAnalyzeResponse(out'[Len(out')])) =>
       LET response == out'[Len(out')]
       IN /\ DOMAIN response.samples \subseteq DOMAIN response.results
          /\ \A c \in DOMAIN response.results : response.results[c] # <<>>
          /\ IF InChunkLoop
             THEN /\ DOMAIN response.results = DOMAIN results
                  /\ DOMAIN results \subseteq WorkColumns(request)
             ELSE DOMAIN response.results = {}

C12_ResultKeys == [][C12_Step]_vars

\* One column has had a detection; the item just taken, of another column,
\* had spans of which none is a detection, and its column is no key.
C12_Witness ==
  /\ ItemTaken /\ Analyzing
  /\ entities # <<>>
  /\ DOMAIN results # {}
  /\ TakenTask.column_name \notin DOMAIN results

(***************************************************************************)
(* C13.  Ragged rows: for every table whose rows are shorter or longer     *)
(* than columns, analyze and redact raise no error; a short row            *)
(* contributes no work item for its missing trailing columns, and the      *)
(* cells at indices >= len(columns) of a long row are never submitted to   *)
(* the classifier.                                                         *)
(***************************************************************************)
\* Some row of the table has not as many cells as there are columns.
Ragged(req) ==
  \E r \in 1..Len(ReqData(req).xs) :
    Len(ReqData(req).xs[r].xs) # Len(ReqColumns(req).xs)

\* The line is an analyze or redact request over a ragged table.
RaggedRequest(line) ==
  /\ IsRequest(line) /\ ActionOf(line) \in {"analyze", "redact"}
  /\ WellTyped(line.value.fields)
  /\ Ragged(line.value.fields)

\* Every work item of redact is a cell of its row below len(columns).
C13_WithinBounds ==
  (InChunkLoop /\ Redacting) =>
    \A k \in 1..Len(tasks) :
      /\ tasks[k].col_idx < Len(ReqColumns(request).xs)
      /\ tasks[k].col_idx < Len(ReqData(request).xs[tasks[k].row_idx + 1].xs)

C13_Step ==
  /\ (Reading /\ RaggedRequest(Line)) =>
       /\ nread' = nread + 1
       /\ \/ InChunkLoop' /\ out' = out
          \/ pc' = "read" /\ Len(out') = Len(out) + 1
                          /\ ~IsError(out'[Len(out')])
  /\ (~InChunkLoop /\ InChunkLoop') =>
       tasks' = IF Analyzing' THEN AnalyzeWork(request')
                ELSE RedactWork(request')
  /\ C13_WithinBounds'
  /\ (InChunkLoop /\ InChunkLoop') =>
       \A k \in (Len(calls) + 1)..Len(calls') :
         \A n \in 1..Len(calls'[k].texts) :
           \E t \in 1..Len(tasks) : tasks[t].text = calls'[k].texts[n]
  /\ (InChunkLoop /\ ~InChunkLoop') =>
       Len(out') = Len(out) + 1 /\ ~IsError(out'[Len(out')])

C13_RaggedRows == [][C13_Step]_vars

\* A table with a row shorter and a row longer than columns went through
\* the chunk loop of redact.
C13_Witness ==
  /\ ChunksDone /\ Redacting /\ calls # <<>>
  /\ \E short, long \in 1..Len(ReqData(request).xs) :
       /\ Len(ReqData(request).xs[short].xs) < Len(ReqColumns(request).xs)
       /\ Len(ReqData(request).xs[long].xs) > Len(ReqColumns(request).xs)

(***************************************************************************)
(* C14.  Redact never mutates its input: for every redact request, chunk   *)
(* failures included, the rows of the caller's data hold the same values   *)
(* after the call as before it; the replacements are written to the        *)
(* per-row copies only.                                                    *)
(*                                                                         *)
(* The caller's data is the data of the request main parsed from the line. *)
(***************************************************************************)
\* The request object main parsed from the line it has taken.
ParsedRequest == stdin[nread].value.fields

C14_Step ==
  /\ (InChunkLoop' /\ Redacting') =>
       /\ request' = ParsedRequest'
       /\ Len(redacted_data') = Len(ReqData(request').xs)
  /\ (InChunkLoop /\ Redacting /\ InChunkLoop') =>
       /\ ReqData(request') = ReqData(request)
       /\ redacted_data' # redacted_data => pc = "item"
  /\ stdin' = stdin

C14_InputNotMutated == [][C14_Step]_vars

\* A replacement has been written to the copy and a chunk has failed; the
\* loop is over.
C14_Witness ==
  /\ ChunksDone /\ Redacting
  /\ redacted_data # CopyRows(ReqData(request))
  /\ \E k \in 1..Len(calls) : calls[k].raised

(***************************************************************************)
(* C15.  Redact preserves the structure of the table: for every input      *)
(* table and every behaviour of the classifier, the output of redact has   *)
(* as many rows as the input and each output row is as long as its input   *)
(* row (ragged rows stay ragged); only cells that were work items can      *)
(* differ from the input.                                                  *)
(***************************************************************************)
\* The rows have the shape of the table of the request and differ from it at
\* work items only.
SameStructure(rows, req) ==
  /\ Len(rows) = Len(ReqData(req).xs)
  /\ \A r \in 1..Len(rows) : Len(rows[r]) = Len(ReqData(req).xs[r].xs)
  /\ \A r \in 1..Len(rows) : \A c \in 1..Len(rows[r]) :
       <<r - 1, c - 1>> \notin Eligible(req)
         => rows[r][c] = ReqData(req).xs[r].xs[c]

C15_Step ==
  /\ (InChunkLoop' /\ Redacting') => SameStructure(redacted_data', request')
  /\ (Len(out') > Len(out) /\ IsRedactResponse(out'[Len(out')])) =>
       IF InChunkLoop
       THEN out'[Len(out')].data = RowsValue(redacted_data)
       ELSE out'[Len(out')].data = ReqData(ParsedRequest')

C15_StructurePreserved == [][C15_Step]_vars

\* A table with rows of different lengths went through the loop and a cell
\* was replaced.
C15_Witness ==
  /\ ChunksDone /\ Redacting
  /\ \E r, q \in 1..Len(redacted_data) :
       Len(redacted_data[r]) # Len(redacted_data[q])
  /\ redacted_data # CopyRows(ReqData(request))

(***************************************************************************)
(* C16.  Empty input short-circuit: when columns or data is empty, or the  *)
(* work list is empty because every cell is null, empty or whitespace, the *)
(* classifier is never invoked; analyze returns empty results and samples  *)
(* with the echoed table identifier, and redact returns the input data     *)
(* unchanged.                                                              *)
(*                                                                         *)
(* For analyze the request is one whose columns, data and rows are lists:  *)
(* a request that is not raises before the work list is looked at (C7).    *)
(***************************************************************************)
EmptyList(v) == IsList(v) /\ v.xs = <<>>

\* columns or data is empty, or no cell is work.
NothingToDo(req) ==
  \/ EmptyList(ReqColumns(req))
  \/ EmptyList(ReqData(req))
  \/ WellTyped(req) /\ Eligible(req) = {}

C16_Step ==
  /\ (Reading /\ IsRequest(Line) /\ ActionOf(Line) = "analyze"
        /\ WellTyped(Line.value.fields) /\ NothingToDo(Line.value.fields)) =>
       LET response == out'[Len(out')]
       IN /\ Len(out') = Len(out) + 1
          /\ DOMAIN response = {"table", "results", "samples"}
          /\ response.table = ReqTable(Line.value.fields)
          /\ DOMAIN response.results = {} /\ DOMAIN response.samples = {}
          /\ pc' = "read" /\ calls' = <<>>
  /\ (Reading /\ IsRequest(Line) /\ ActionOf(Line) = "redact"
        /\ NothingToDo(Line.value.fields)) =>
       /\ out' = Append(out, [data |-> ReqData(Line.value.fields)])
       /\ pc' = "read" /\ calls' = <<>>
  /\ calls' # <<>> => InChunkLoop' /\ tasks' # <<>>

C16_EmptyShortCircuit == [][C16_Step]_vars

\* An analyze request with columns and a row whose cells below len(columns)
\* are null or blank was answered with the table it named.
C16_Witness ==
  /\ pc = "read" /\ nread = 1 /\ Len(out) = 3
  /\ IsRequest(stdin[1]) /\ ActionOf(stdin[1]) = "analyze"
  /\ ~EmptyList(ReqColumns(ParsedRequest))
  /\ ~EmptyList(ReqData(ParsedRequest))
  /\ WellTyped(ParsedRequest) /\ Eligible(ParsedRequest) = {}
  /\ out[3] = [table |-> "users", results |-> EmptyDict, samples |-> EmptyDict]

(***************************************************************************)
(* C17.  Statelessness of analyze: with a deterministic classifier the     *)
(* response to an analyze request depends on that request only (table,     *)
(* columns, data, threshold); running it twice, or after any sequence of   *)
(* other analyze, redact or erroneous requests, yields an identical        *)
(* response.                                                               *)
(*                                                                         *)
(* Stated of the lines of one run: two lines that hold the same analyze    *)
(* request have the same response, whatever was served between them.       *)
(***************************************************************************)
\* The position in out of the response to line k: after loading and ready,
\* one response per non-blank line.
ResponseAt(k) == 2 + NonBlank(k)
\* Line k has been answered.
Answered(k) ==
  /\ k <= nread /\ stdin[k].kind # "blank"
  /\ ResponseAt(k) <= Len(out)
  /\ k = nread => ~InChunkLoop

C17_AnalyzeStateless ==
  \A a, b \in 1..Len(stdin) :
    ( /\ a < b /\ stdin[a] = stdin[b]
      /\ IsRequest(stdin[a]) /\ ActionOf(stdin[a]) = "analyze"
      /\ Answered(a) /\ Answered(b) )
      => out[ResponseAt(a)] = out[ResponseAt(b)]

\* An analyze request was served, then one with a detection in another
\* column, then the first again.
C17_Witness ==
  /\ pc = "read" /\ nread = 3 /\ Len(out) = 5
  /\ stdin[1] = stdin[3] /\ stdin[2] # stdin[1]
  /\ IsAnalyzeResponse(out[3]) /\ IsAnalyzeResponse(out[4])
  /\ DOMAIN out[3].results # {}
  /\ ~(DOMAIN out[4].results \subseteq DOMAIN out[3].results)
  /\ out[5] = out[3]

(***************************************************************************)
(* C18.  Chunking covers the work list exactly once, in order: the         *)
(* flattened work list (analyze: columns outer, rows inner; redact: rows   *)
(* outer, columns inner) is split into consecutive chunks of exactly       *)
(* BATCH_SIZE items except possibly the last; every work item is submitted *)
(* to the classifier in exactly one chunk; chunk i+1 is not started before *)
(* chunk i completes; and each returned span list is attributed to the     *)
(* work item at the same position in its chunk (same column, or same       *)
(* cell).                                                                  *)
(***************************************************************************)
\* The texts of the work items k with from < k <= to.
TextsOf(from, to) == [k \in 1..(to - from) |-> tasks[from + k].text]
\* The end of the chunk that starts after item i.
ChunkEnd == IF Len(tasks) - i < BATCH_SIZE THEN Len(tasks) ELSE i + BATCH_SIZE
\* The offsets of the chunks of the work list.
ChunkOffsets == {o \in 0..(Len(tasks) - 1) : o % BATCH_SIZE = 0}

\* A step that starts a chunk: the slice is the next BATCH_SIZE items (or
\* what is left), no earlier chunk is open, and the classifier gets the
\* texts of the slice, in order, in one call or text by text.
C18_ChunkStart ==
  (pc = "chunk" /\ InChunkLoop') =>
    LET new == SubSeq(calls', Len(calls) + 1, Len(calls'))
    IN /\ i % BATCH_SIZE = 0 /\ i < Len(tasks)
       /\ batch_tasks' = [k \in 1..(ChunkEnd - i) |-> tasks[i + k]]
       /\ SubSeq(calls', 1, Len(calls)) = calls
       /\ \A k \in 1..Len(calls) : calls[k].at < i
       /\ new # <<>> /\ \A k \in 1..Len(new) : new[k].at = i
       /\ IF gliner.has_batch
          THEN Len(new) = 1 /\ new[1].texts = TextsOf(i, ChunkEnd)
          ELSE /\ Len(new) <= ChunkEnd - i
               /\ \A k \in 1..Len(new) :
                    /\ new[k].texts = <<tasks[i + k].text>>
                    /\ new[k].raised => k = Len(new)
               /\ pc' = "item" => Len(new) = ChunkEnd - i
       /\ pc' = "item" => i' = i /\ j' = -1
       /\ pc' = "chunk" => i' = i + BATCH_SIZE

\* A step that takes an item: it is the next of the chunk, and what changes
\* is the entry of its column or its cell.
C18_Item ==
  pc = "item" =>
    LET task == tasks[i + j' + 1]
    IN /\ j' = j + 1 /\ batch_tasks' = batch_tasks /\ calls' = calls
       /\ task = batch_tasks[j' + 1]
       /\ i' = IF i + j' + 1 = ChunkEnd THEN i + BATCH_SIZE ELSE i
       /\ pc' = IF i + j' + 1 = ChunkEnd THEN "chunk" ELSE "item"
       /\ Analyzing =>
            \A c \in DOMAIN results' \cup DOMAIN samples' :
              c # task.column_name =>
                /\ c \in DOMAIN results /\ results'[c] = results[c]
                /\ c \in DOMAIN samples <=> c \in DOMAIN samples'
       /\ Redacting =>
            \A r \in 1..Len(redacted_data) : \A c \in 1..Len(redacted_data[r]) :
              <<r, c>> # <<task.row_idx + 1, task.col_idx + 1>>
                => redacted_data'[r][c] = redacted_data[r][c]

C18_Step ==
  /\ (~InChunkLoop /\ InChunkLoop') =>
       /\ tasks' = IF Analyzing' THEN AnalyzeWork(request')
                   ELSE RedactWork(request')
       /\ i' = 0 /\ calls' = <<>>
  /\ (InChunkLoop /\ InChunkLoop') => tasks' = tasks
  /\ C18_ChunkStart
  /\ C18_Item
  /\ (InChunkLoop /\ ~InChunkLoop') =>
       /\ i >= Len(tasks) /\ pc = "chunk"
       /\ {calls[k].at : k \in 1..Len(calls)} = ChunkOffsets
       /\ gliner.has_batch => Len(calls) = Cardinality(ChunkOffsets)

C19_EveryTextServed ==
  (pc = "chunk" /\ InChunkLoop' /\ ~gliner.has_batch) =>
    /\ Len(calls') - Len(calls) = ChunkEnd - i
    /\ ChunkEnd - i > 1 => pc' = "item"

C19_PerCallIsolation == [][C19_EveryTextServed]_vars

(***************************************************************************)
(* C20.  Analyze and redact select the same cells: for every table, the    *)
(* set of cells analyze submits to the classifier equals the set redact    *)
(* submits, namely exactly the cells at an index < len(columns) whose      *)
(* value is not null and whose text is not empty after trimming; only the  *)
(* order of submission differs (column-major against row-major).           *)
(*                                                                         *)
(* Stated of every request over a table that is read: the two flattenings  *)
(* of its table agree in this way, and the work list of the request is the *)
(* one of its action.                                                      *)
(***************************************************************************)
\* The two flattenings of the table of a request select the same cells.
SameCells(req) ==
  LET columns == ReqColumns(req).xs
      for_analyze == AnalyzeTasks(columns, ReqData(req).xs)
      for_redact == RedactTasks(Len(columns), ReqData(req).xs)
      cells == {<<for_redact[k].row_idx, for_redact[k].col_idx>> :
                  k \in 1..Len(for_redact)}
      by_column == InOrder(cells, TRUE)
  IN /\ cells = Eligible(req)
     /\ Len(for_redact) = Cardinality(cells)
     /\ \A k \in 1..Len(for_redact) :
          /\ for_redact[k].text
               = PyStr(CellAt(req, <<for_redact[k].row_idx,
                                     for_redact[k].col_idx>>))
          /\ \A n \in 1..(k - 1) :
               RowMajor(<<for_redact[n].row_idx, for_redact[n].col_idx>>,
                        <<for_redact[k].row_idx, for_redact[k].col_idx>>)
     /\ for_analyze
          = [k \in 1..Len(by_column) |->
               [column_name |-> columns[by_column[k][2] + 1],
                text |-> PyStr(CellAt(req, by_column[k]))]]

C20_Step ==
  /\ (Reading /\ IsRequest(Line) /\ ActionOf(Line) \in {"analyze", "redact"}
        /\ WellTyped(Line.value.fields)) =>
       SameCells(Line.value.fields)
  /\ (~InChunkLoop /\ InChunkLoop') =>
       tasks' = IF Analyzing'
                THEN AnalyzeTasks(ReqColumns(request').xs, ReqData(request').xs)
                ELSE RedactTasks(Len(ReqColumns(request').xs),
                                 ReqData(request').xs)

C20_SameCellsSelected == [][C20_Step]_vars

\* The table of the request in the loop has a null cell, a blank cell and a
\* cell past its columns, and several cells that are work.
C20_Witness ==
  /\ InChunkLoop /\ Len(tasks) > 1
  /\ \E r \in 1..Len(ReqData(request).xs) :
       LET row == ReqData(request).xs[r].xs
       IN /\ Len(row) > Len(ReqColumns(request).xs)
          /\ Len(ReqColumns(request).xs) >= 2
          /\ row[1] = Null
          /\ ~StripTruthy(PyStr(row[2]))

====
